---- MODULE Spec2Model ----
(***************************************************************************)
(* WeaveSuite backend: the coverage correlator (coverage_service.py), the  *)
(* isolated execution engine (test_service.py) and the part of the         *)
(* generation pipeline that stores tests (generation_service.py), as state *)
(* machines over the transactional store.                                  *)
(*                                                                         *)
(* Text is modelled by structure.  A path is a record                      *)
(*   [segs |-> <<s1, ..., sn>>, query |-> BOOLEAN]                         *)
(* standing for the string "/s1/.../sn" followed by "?..." when query is   *)
(* TRUE; an empty segment "" at the end is a trailing slash, so "/" is     *)
(* <<"">> and the empty string is <<>>.                                    *)
(***************************************************************************)
EXTENDS Integers, Sequences, FiniteSets, TLC

VARIABLES
    input,        \* pure-function harness: the arguments of the call
    output,       \* pure-function harness: the value returned
    phase,        \* pure-function harness: "ready" before the call, "done" after
    specs,        \* store: OpenAPISpec rows, spec id -> contract content
    endpoints,    \* store: Endpoint rows in table order
    tests,        \* store: Test rows, test id -> row
    coverage,     \* store: TestEndpointCoverage rows
    extracted,    \* the contracts a committed extraction run has processed
    hash_order,   \* the order this process iterates 'paths' and HTTP_METHODS in
    temp_dir,     \* engine: _temp_dir of the instance that runs the batch
    dirs,         \* file system: the workspace directories that exist
    files,        \* file system: the unit files that exist
    now,          \* int(time.time()): the operations fall within one second
    sweep,        \* the execute_all_tests call in progress, if any
    sessions,     \* the store sessions with an open transaction
    last          \* the last operation and what it returned

storeVars == <<specs, endpoints, tests, coverage, extracted, hash_order>>
engineVars == <<temp_dir, dirs, files, now, sweep>>
harnessVars == <<input, output, phase>>

vars == <<input, output, phase, specs, endpoints, tests, coverage, extracted,
          hash_order, temp_dir, dirs, files, now, sweep, sessions, last>>

\* Python's None, where a string stands: a missing operationId or method
None == "None"
\* a message is the sequence of its lines; None, where a message stands
NoMessage == <<>>
\* None, where a directory path stands
NoDir == <<>>
\* None, where an integer stands: spec_id, last_execution ("if test.spec_id:"
\* takes 0 and None alike)
NoId == 0

(***************************************************************************)
(* Path segments.                                                          *)
(***************************************************************************)
DigitSegs == {"42"}
UuidSegs == {"123e4567-e89b-12d3-a456-426614174000"}
BraceSegs == {"{id}", "{user_id}"}
\* literal segments whose text is a regular expression that matches itself
PlainSegs == {"users", "me", "v1x0"}
\* literal segments whose text, read as a regular expression, matches other
\* segments too: the dot of "v1.0" stands for any character
WildSegs == {"v1.0"}
\* literal segments whose text, read as a regular expression, matches no
\* segment: "$count" asserts the end of the string before "count"
MetaSegs == {"$count"}
EmptySeg == ""

Placeholder == "{id}"

Path(segs, query) == [segs |-> segs, query |-> query]

(***************************************************************************)
(* CoverageService._normalize_path                                         *)
(***************************************************************************)
\* path.split('?')[0].rstrip('/'): every trailing slash goes
RECURSIVE rstrip_slash(_)
rstrip_slash(segs) ==
    IF segs # <<>> /\ segs[Len(segs)] = EmptySeg
    THEN rstrip_slash(SubSeq(segs, 1, Len(segs) - 1))
    ELSE segs

\* the three re.sub calls, on one segment
normalize_segment(s) ==
    IF s \in DigitSegs THEN Placeholder
    ELSE IF s \in UuidSegs THEN Placeholder
    ELSE IF s \in BraceSegs THEN Placeholder
    ELSE s

_normalize_path(path) ==
    LET stripped == rstrip_slash(path.segs)
    IN  Path([i \in 1..Len(stripped) |-> normalize_segment(stripped[i])], FALSE)

(***************************************************************************)
(* CoverageService._find_matching_endpoint                                 *)
(***************************************************************************)
\* one segment of the pattern re.sub(r'\{[^}]+\}', r'[^/]+', endpoint_path)
\* against one segment of the normalized call path
regex_segment_matches(pseg, s) ==
    IF pseg = Placeholder THEN s # EmptySeg
    ELSE IF pseg \in MetaSegs THEN FALSE
    ELSE IF pseg \in WildSegs THEN s \in WildSegs \cup {"v1x0"}
    ELSE pseg = s

\* re.match(f'^{pattern}$', normalized_path)
pattern_matches(endpoint_path, normalized_path) ==
    /\ ~normalized_path.query
    /\ Len(endpoint_path.segs) = Len(normalized_path.segs)
    /\ \A i \in 1..Len(endpoint_path.segs) :
          regex_segment_matches(endpoint_path.segs[i], normalized_path.segs[i])

\* the body of the loop: does this endpoint end the search
endpoint_matches(endpoint, normalized_path, method) ==
    /\ endpoint.method = method
    /\ LET endpoint_path == _normalize_path(endpoint.path)
       IN  \/ endpoint_path = normalized_path
           \/ pattern_matches(endpoint_path, normalized_path)

\* None, where an Endpoint row stands
NoEndpoint ==
    [id |-> NoId, spec_id |-> NoId, path |-> Path(<<>>, FALSE), method |-> None,
     operation_id |-> None]

RECURSIVE first_match(_, _, _)
first_match(eps, normalized_path, method) ==
    IF eps = <<>> THEN NoEndpoint
    ELSE IF endpoint_matches(Head(eps), normalized_path, method) THEN Head(eps)
    ELSE first_match(Tail(eps), normalized_path, method)

_find_matching_endpoint(path, method, eps) ==
    first_match(eps, _normalize_path(path), method)

(***************************************************************************)
(* Bounds and input pools.                                                 *)
(***************************************************************************)
MaxCatalog == 2         \* endpoints in a catalog handed to the matcher

Methods == {"GET", "POST"}
\* contract ids of the rows in a catalog handed to the matcher
CatalogSpecIds == {1, 2}

\* declared path templates: /users, /users/{user_id}, /users/me,
\* /users/v1.0, /users/{user_id}/$count
EndpointPathPool ==
    { Path(<<"users">>, FALSE),
      Path(<<"users", "{user_id}">>, FALSE),
      Path(<<"users", "me">>, FALSE),
      Path(<<"users", "v1.0">>, FALSE),
      Path(<<"users", "{user_id}", "$count">>, FALSE) }

\* paths found in test code: /users, /users/42, /users/me, /users/<uuid>,
\* /users/{id}, /users/42/, /users/42?..., /users/42/$count,
\* /users/me/$count, /users/v1x0, /
CallPathPool ==
    { Path(<<"users">>, FALSE),
      Path(<<"users", "42">>, FALSE),
      Path(<<"users", "me">>, FALSE),
      Path(<<"users", "123e4567-e89b-12d3-a456-426614174000">>, FALSE),
      Path(<<"users", "{id}">>, FALSE),
      Path(<<"users", "42", "">>, FALSE),
      Path(<<"users", "42">>, TRUE),
      Path(<<"users", "42", "$count">>, FALSE),
      Path(<<"users", "me", "$count">>, FALSE),
      Path(<<"users", "v1x0">>, FALSE),
      Path(<<"">>, FALSE) }

EndpointRow(id, spec_id, path, method, operation_id) ==
    [id |-> id, spec_id |-> spec_id, path |-> path, method |-> method,
     operation_id |-> operation_id]

EndpointKey(e) == <<e.spec_id, e.path, e.method>>

\* catalogs: rows with distinct ids (the position) and distinct keys
Catalogs ==
    LET Keys == CatalogSpecIds \X EndpointPathPool \X Methods
        KeySeqs == UNION { [1..n -> Keys] : n \in 0..MaxCatalog }
    IN  { [i \in DOMAIN ks |-> EndpointRow(i, ks[i][1], ks[i][2], ks[i][3], None)] :
            ks \in { k \in KeySeqs :
                       \A i, j \in DOMAIN k : i # j => k[i] # k[j] } }

StoreIdle ==
    /\ specs = <<>>
    /\ endpoints = <<>>
    /\ tests = <<>>
    /\ coverage = {}
    /\ extracted = {}
    /\ hash_order = <<>>
    /\ temp_dir = NoDir
    /\ dirs = {}
    /\ files = {}
    /\ now = 1
    /\ sweep = [pc |-> "idle"]
    /\ sessions = <<>>
    /\ last = [op |-> "init"]

(***************************************************************************)
(* The matcher as a function of its arguments.                             *)
(***************************************************************************)
InitMatch ==
    /\ input \in [catalog : Catalogs, method : Methods, path : CallPathPool]
    /\ output = NoEndpoint
    /\ phase = "ready"
    /\ StoreIdle

Match ==
    /\ phase = "ready"
    /\ output' = _find_matching_endpoint(input.path, input.method, input.catalog)
    /\ phase' = "done"
    /\ UNCHANGED <<input, storeVars, engineVars, sessions, last>>

NextMatch == Match

SpecMatch == InitMatch /\ [][NextMatch]_vars

\* q matches the normalized path p with each placeholder standing for one
\* non-slash segment (the claim's reading, segment by segment)
param_matches(q, p) ==
    /\ ~q.query
    /\ Len(q.segs) = Len(p.segs)
    /\ \A i \in 1..Len(p.segs) :
          \/ p.segs[i] = Placeholder /\ q.segs[i] # EmptySeg
          \/ p.segs[i] # Placeholder /\ p.segs[i] = q.segs[i]

\* C3: for every endpoint e of the catalog and every concrete path q that
\* matches e's normalized path, placeholders standing for one segment each,
\* the matcher called with (q, e.method) returns e itself.  Stated for the
\* first such endpoint of the catalog: no endpoint before e has the method
\* and a normalized path that the normalized q equals or parameter-matches.
C3_MatcherReturnsFirstCandidate ==
    phase = "done" =>
        \A i \in DOMAIN input.catalog :
            LET e == input.catalog[i]
                nq == _normalize_path(input.path)
            IN  (/\ e.method = input.method
                 /\ param_matches(input.path, _normalize_path(e.path))
                 /\ \A j \in 1..(i - 1) :
                       ~(/\ input.catalog[j].method = input.method
                         /\ param_matches(nq, _normalize_path(input.catalog[j].path))))
                => output = e

\* the endpoint's normalized path equals the normalized call path nq or
\* matches it, each placeholder standing for one non-slash segment
shape_matches(nq, endpoint) ==
    \/ _normalize_path(endpoint.path) = nq
    \/ param_matches(nq, _normalize_path(endpoint.path))

\* C18: the matcher is sound -- an endpoint it returns has the call's method
\* exactly and a normalized path that equals the normalized call path or
\* parameter-matches it -- and a call whose method differs from that of
\* every endpoint with such a path gets no match.
C18_MatcherSound ==
    phase = "done" =>
        LET nq == _normalize_path(input.path)
        IN  /\ output # NoEndpoint =>
                  /\ \E i \in DOMAIN input.catalog : input.catalog[i] = output
                  /\ output.method = input.method
                  /\ shape_matches(nq, output)
            /\ (\A i \in DOMAIN input.catalog :
                   shape_matches(nq, input.catalog[i]) =>
                       input.catalog[i].method # input.method)
                => output = NoEndpoint

\* C20: of the endpoints that have the call's method and a normalized path
\* that equals or parameter-matches the normalized call path, the matcher
\* returns the first in catalog order, also when a later one is an exact
\* match and the first one a parameterized match only.
C20_FirstInCatalogOrderWins ==
    phase = "done" =>
        LET nq == _normalize_path(input.path)
            candidates == { i \in DOMAIN input.catalog :
                              /\ input.catalog[i].method = input.method
                              /\ shape_matches(nq, input.catalog[i]) }
        IN  candidates # {} =>
                output = input.catalog[CHOOSE i \in candidates :
                                          \A j \in candidates : i <= j]

(***************************************************************************)
(* The store: contracts, tests and their bodies.                           *)
(***************************************************************************)
\* the names of the test functions the generator produces
TestNames == {"test_gateway_users_get", "test_gateway_users_me_get"}

\* one operation object of a contract's 'paths' mapping
Operation(path, method, operation_id) ==
    [path |-> path, method |-> method, operation_id |-> operation_id]

\* contract documents (OpenAPISpec.spec): the operations under 'paths', or
\* nothing at all ("if not openapi_data")
Document(ops) == [present |-> TRUE, ops |-> ops]

NoDocument == [present |-> FALSE, ops |-> {}]

ContractA ==
    Document({ Operation(Path(<<"users">>, FALSE), "GET", "listUsers"),
               Operation(Path(<<"users", "{user_id}">>, FALSE), "GET", "getUser") })

ContractB ==
    Document({ Operation(Path(<<"users", "me">>, FALSE), "GET", "whoAmI"),
               Operation(Path(<<"users">>, FALSE), "POST", None) })

\* the OpenAPISpec table: two contracts and a row without a document
StoredSpecs == <<ContractA, ContractB, NoDocument>>

SpecIds == DOMAIN StoredSpecs

\* the contracts a generated test gets bound to (0: none)
TestSpecChoices == {NoId, 1}

\* a call site in test source: client.verb(literal).  kind says what the
\* literal looks like: "path" starts with '/', "url" is scheme://host + path,
\* "fstring" has an interpolation before the path, "other" has no path
CallSite(client, verb, kind, path) ==
    [client |-> client, verb |-> verb, kind |-> kind, path |-> path]

\* test bodies
CodePool ==
    { {},
      { CallSite("requests", "get", "path", Path(<<"users", "42">>, FALSE)) },
      { CallSite("client", "get", "path", Path(<<"users", "me">>, FALSE)),
        CallSite("requests", "post", "url", Path(<<"users">>, TRUE)),
        CallSite("session", "GET", "fstring", Path(<<"users", "{id}">>, FALSE)) } }

TestRow(name, code, spec_id, status, last_execution, execution_time, error_message) ==
    [name |-> name, code |-> code, spec_id |-> spec_id, status |-> status,
     last_execution |-> last_execution, execution_time |-> execution_time,
     error_message |-> error_message]

(***************************************************************************)
(* CoverageService._extract_path and _extract_http_calls                   *)
(***************************************************************************)
HTTP_METHODS == {"get", "post", "put", "patch", "delete", "head", "options"}

\* clients of HTTP_CALL_PATTERNS that take a string literal
HTTP_CLIENTS == {"requests", "httpx", "client", "session"}

upper(verb) ==
    CASE verb \in {"get", "GET"} -> "GET"
      [] verb \in {"post", "POST"} -> "POST"
      [] verb \in {"put", "PUT"} -> "PUT"
      [] verb \in {"patch", "PATCH"} -> "PATCH"
      [] verb \in {"delete", "DELETE"} -> "DELETE"
      [] verb \in {"head", "HEAD"} -> "HEAD"
      [] verb \in {"options", "OPTIONS"} -> "OPTIONS"
      [] OTHER -> None

\* None, where a path stands
NoPath == [segs |-> <<>>, query |-> TRUE]

\* re.search(r'(/[a-zA-Z0-9/_\-{}]+)', url_or_path): the match starts at the
\* first '/' that a character of the class follows, and ends before the
\* first character outside the class
fstring_class(s) == s \notin MetaSegs

RECURSIVE drop_unmatched(_)
drop_unmatched(segs) ==
    IF segs # <<>> /\ ~fstring_class(Head(segs)) THEN drop_unmatched(Tail(segs))
    ELSE segs

RECURSIVE fstring_prefix(_)
fstring_prefix(segs) ==
    IF segs = <<>> THEN <<>>
    ELSE IF fstring_class(Head(segs)) THEN <<Head(segs)>> \o fstring_prefix(Tail(segs))
    ELSE <<EmptySeg>>

fstring_search(segs) ==
    LET rest == drop_unmatched(segs)
        found == fstring_prefix(rest)
    IN  IF rest = <<>> \/ found = <<EmptySeg>> THEN NoPath ELSE Path(found, FALSE)

\* the normalized path, or None when none is recovered
_extract_path(kind, path) ==
    CASE kind = "path" -> _normalize_path(path)
      [] kind = "url" -> _normalize_path(Path(path.segs, FALSE))
      [] kind = "fstring" ->
            IF fstring_search(path.segs) = NoPath THEN NoPath
            ELSE _normalize_path(fstring_search(path.segs))
      [] OTHER -> NoPath

\* "if path:" -- None and the empty string are both dropped
truthy_path(p) == p # NoPath /\ p.segs # <<>>

_extract_http_calls(code) ==
    { <<upper(c.verb), _extract_path(c.kind, c.path)>> :
        c \in { d \in code : /\ d.client \in HTTP_CLIENTS
                             /\ upper(d.verb) # None
                             /\ truthy_path(_extract_path(d.kind, d.path)) } }

(***************************************************************************)
(* CoverageService._process_openapi_spec, extract_endpoints_from_spec and  *)
(* extract_all_endpoints                                                   *)
(***************************************************************************)
\* a lookup that never finds the row (mutant)
lookup_endpoint_misses(rows, spec_id, path, method) == {}

\* query(Endpoint).filter_by(spec_id=..., path=..., method=...).first()
lookup_endpoint(rows, spec_id, path, method) ==
    { i \in DOMAIN rows : /\ rows[i].spec_id = spec_id
                          /\ rows[i].path = path
                          /\ rows[i].method = method }

\* the operations that get a new row
new_operations(rows, spec_id, content) ==
    { op \in content : lookup_endpoint(rows, spec_id, op.path, op.method) = {} }

\* existing rows take the operation's metadata
update_existing(rows, spec_id, content) ==
    [i \in DOMAIN rows |->
        LET ops == { op \in content : i \in lookup_endpoint(rows, spec_id, op.path, op.method) }
        IN  IF ops = {} THEN rows[i]
            ELSE [rows[i] EXCEPT !.operation_id = (CHOOSE op \in ops : TRUE).operation_id]]

\* the orders in which the loops over paths and HTTP_METHODS can add rows
Orderings(S) ==
    { f \in [1..Cardinality(S) -> S] : \A i, j \in DOMAIN f : i # j => f[i] # f[j] }

\* the table after a committed run that adds its new rows in this order
_process_openapi_spec(rows, spec_id, content, order) ==
    LET updated == update_existing(rows, spec_id, content)
    IN  updated \o
        [k \in DOMAIN order |->
            EndpointRow(Len(rows) + k, spec_id, order[k].path, order[k].method,
                        order[k].operation_id)]

ids_of_spec(rows, spec_id) == { rows[i].id : i \in { j \in DOMAIN rows : rows[j].spec_id = spec_id } }

\* every operation object of the stored contracts, and the orders the loops
\* visit them in: fixed within a process by the documents' key order and the
\* hash order of HTTP_METHODS
AllOperations == UNION { StoredSpecs[s].ops : s \in SpecIds }

VisitOrders ==
    LET forward == CHOOSE f \in Orderings(AllOperations) : TRUE
    IN  { forward, [i \in DOMAIN forward |-> forward[Len(forward) + 1 - i]] }

in_visit_order(S, visit) == SelectSeq(visit, LAMBDA op : op \in S)

\* one contract of the batch: rows before -> rows after a committed run
process_one(rows, spec_id, visit) ==
    IF ~specs[spec_id].present THEN rows
    ELSE _process_openapi_spec(rows, spec_id, specs[spec_id].ops,
            in_visit_order(new_operations(rows, spec_id, specs[spec_id].ops), visit))

\* extract_all_endpoints from contract spec_id on; the commit of contract
\* fail_at fails and the exception leaves the loop
RECURSIVE extract_from(_, _, _, _)
extract_from(rows, spec_id, fail_at, visit) ==
    IF spec_id \notin DOMAIN specs \/ spec_id = fail_at THEN rows
    ELSE extract_from(process_one(rows, spec_id, visit), spec_id + 1, fail_at, visit)

\* the contracts whose run commits: those with a document
Committing == { s \in DOMAIN specs : specs[s].present }

\* the exception db.commit() raises, and nothing raised
db_error == [kind |-> "persistence", message |-> "commit failed"]

NoException == [kind |-> "none"]

\* the except branch: rollback, a log line with spec.id, and a bare raise --
\* the caller gets the exception the commit raised
reraise(e, spec_id) == e

ExtractOne(spec_id, ok) ==
    /\ \/ /\ spec_id \in Committing
          /\ ok
          /\ endpoints' = process_one(endpoints, spec_id, hash_order)
          /\ extracted' = extracted \cup {spec_id}
       \/ /\ ~(spec_id \in Committing /\ ok)
          /\ UNCHANGED <<endpoints, extracted>>
    /\ last' = [op |-> "extract", id |-> spec_id,
                committed |-> spec_id \in Committing /\ ok,
                raised |-> IF spec_id \in Committing /\ ~ok
                           THEN reraise(db_error, spec_id)
                           ELSE NoException]
    /\ UNCHANGED <<harnessVars, sessions, specs, tests, coverage, hash_order, engineVars>>

ExtractAll(fail_at) ==
    /\ endpoints' = extract_from(endpoints, 1, fail_at, hash_order)
    /\ extracted' = extracted \cup
           { s \in Committing : fail_at = 0 \/ s < fail_at }
    /\ last' = [op |-> "extract_all", id |-> fail_at, committed |-> fail_at = 0]
    /\ UNCHANGED <<harnessVars, sessions, specs, tests, coverage, hash_order, engineVars>>

(***************************************************************************)
(* CoverageService._analyze_single_test, analyze_test_coverage and         *)
(* analyze_all_tests                                                       *)
(***************************************************************************)
\* an analysis that patches: the old rows stay (mutant)
delete_coverage_skipped(rows, test_id) == rows

\* a delete without the filter: every row goes (mutant)
delete_coverage_unfiltered(rows, test_id) == {}

\* query(TestEndpointCoverage).filter_by(test_id=test.id).delete()
delete_coverage(rows, test_id) == { r \in rows : r[1] # test_id }

\* candidates taken from the whole catalog, whatever the test (mutant)
candidate_endpoints_unscoped(test) == endpoints

\* the endpoints to match against: "if test.spec_id:"
candidate_endpoints(test) ==
    IF test.spec_id # NoId
    THEN SelectSeq(endpoints, LAMBDA e : e.spec_id = test.spec_id)
    ELSE endpoints

\* the endpoint ids the loop over http_calls adds a row for
matched_endpoint_ids(test) ==
    LET found == { _find_matching_endpoint(call[2], call[1], candidate_endpoints(test)) :
                     call \in _extract_http_calls(test.code) }
    IN  { e.id : e \in found \ {NoEndpoint} }

\* the coverage table after a committed analysis of test test_id
_analyze_single_test(rows, test_id) ==
    delete_coverage(rows, test_id) \cup
        { <<test_id, eid>> : eid \in matched_endpoint_ids(tests[test_id]) }

\* analyze_all_tests: tests in table order.  The commits of the tests in
\* failing fail and are rolled back, and the loop goes on; the delete query
\* of test raising raises, nothing catches it, and the exception leaves the
\* loop (the request's session is closed with nothing pending)
RECURSIVE analyze_from(_, _, _, _)
analyze_from(rows, test_id, failing, raising) ==
    IF test_id \notin DOMAIN tests \/ test_id = raising THEN rows
    ELSE analyze_from(IF test_id \in failing THEN rows
                      ELSE _analyze_single_test(rows, test_id),
                      test_id + 1, failing, raising)

\* what _analyze_single_test returns: the success dict with the matched
\* endpoints, or the error dict of the except branch
analysis_result(test_id, committed) ==
    IF committed
    THEN [status |-> "success", test_id |-> test_id,
          endpoints_matched |-> matched_endpoint_ids(tests[test_id])]
    ELSE [status |-> "error", message |-> "commit failed"]

\* len(analysis.get("endpoints_matched", []))
mappings_count(analysis) ==
    IF "endpoints_matched" \in DOMAIN analysis
    THEN Cardinality(analysis.endpoints_matched)
    ELSE 0

\* the entry appended to results for one test
report_entry(test_id, analysis) ==
    [test_id |-> test_id, test_name |-> tests[test_id].name,
     endpoints_matched |-> mappings_count(analysis)]

RECURSIVE sum_matched(_, _)
sum_matched(details, n) ==
    IF n = 0 THEN 0 ELSE details[n].endpoints_matched + sum_matched(details, n - 1)

\* what analyze_all_tests hands to its caller: the report dict, or the
\* exception that left the loop (no report at all)
analyze_all_report(failing, raising) ==
    IF raising \in DOMAIN tests
    THEN [returned |-> FALSE]
    ELSE LET details == [t \in DOMAIN tests |->
                            report_entry(t, analysis_result(t, t \notin failing))]
         IN  [returned |-> TRUE, status |-> "success", total_tests |-> Len(tests),
              total_mappings |-> sum_matched(details, Len(details)),
              details |-> details]

AnalyzeOne(test_id, ok) ==
    /\ coverage' = IF test_id \in DOMAIN tests /\ ok
                   THEN _analyze_single_test(coverage, test_id)
                   ELSE coverage
    /\ last' = [op |-> "analyze", id |-> test_id,
                committed |-> test_id \in DOMAIN tests /\ ok]
    /\ UNCHANGED <<harnessVars, sessions, specs, endpoints, tests, extracted, hash_order, engineVars>>

AnalyzeAll(failing, raising) ==
    /\ coverage' = analyze_from(coverage, 1, failing, raising)
    /\ last' = [op |-> "analyze_all", id |-> raising,
                committed |-> failing = {} /\ raising \notin DOMAIN tests,
                failing |-> failing,
                report |-> analyze_all_report(failing, raising)]
    /\ UNCHANGED <<harnessVars, sessions, specs, endpoints, tests, extracted, hash_order, engineVars>>

(***************************************************************************)
(* GenerationService._store_tests                                          *)
(***************************************************************************)
\* query(Test).filter_by(name=test_name).first()
test_by_name(rows, name) == { i \in DOMAIN rows : rows[i].name = name }

\* one generated function: an existing row is overwritten and reset, else
\* a new row is added
store_one(rows, name, code, spec_id) ==
    IF test_by_name(rows, name) # {}
    THEN LET i == CHOOSE j \in test_by_name(rows, name) :
                     \A k \in test_by_name(rows, name) : j <= k
         IN  [rows EXCEPT ![i] = TestRow(name, code, spec_id, "pending", NoId, 0, NoMessage)]
    ELSE Append(rows, TestRow(name, code, spec_id, "pending", NoId, 0, NoMessage))

\* the generated functions, one after the other.  A batch is taken in one
\* fixed order of its names: the other orders of arrival are those of the
\* same functions generated in separate batches
RECURSIVE store_from(_, _, _)
store_from(rows, names, batch) ==
    IF names = {} THEN rows
    ELSE LET name == CHOOSE n \in names : TRUE
         IN  store_from(store_one(rows, name, batch[name].code, batch[name].spec_id),
                        names \ {name}, batch)

\* what the generator can hand over: some named functions, each with a
\* body.  The contract is looked up by the service the name starts with,
\* in the Microservice table of the moment: the names of one batch, all of
\* the service "gateway", get the same contract
Batches ==
    UNION { { [n \in names |-> [code |-> codes[n], spec_id |-> spec_id]] :
                codes \in [names -> CodePool], spec_id \in TestSpecChoices } :
              names \in (SUBSET TestNames) \ {{}} }

_store_tests(batch, ok) ==
    /\ tests' = IF ok THEN store_from(tests, DOMAIN batch, batch) ELSE tests
    /\ last' = [op |-> "store_tests", id |-> NoId, committed |-> ok]

StoreTests(batch, ok) ==
    /\ _store_tests(batch, ok)
    /\ UNCHANGED <<harnessVars, sessions, specs, endpoints, coverage, extracted, hash_order, engineVars>>

(***************************************************************************)
(* CoverageService.get_coverage_summary                                    *)
(***************************************************************************)
\* endpoint_query.count(); "if spec_id:" -- no filter without a contract id
total_endpoints(spec_id) ==
    Cardinality({ i \in DOMAIN endpoints :
                    spec_id = NoId \/ endpoints[i].spec_id = spec_id })

\* the count without distinct(): one per coverage row (mutant)
covered_count_rows(spec_id) ==
    IF spec_id = NoId
    THEN Cardinality(coverage)
    ELSE Cardinality({ c \in coverage : \E i \in DOMAIN endpoints :
                         endpoints[i].id = c[2] /\ endpoints[i].spec_id = spec_id })

\* query(TestEndpointCoverage.endpoint_id).distinct(), joined with Endpoint
\* and filtered when a contract is given
covered_count(spec_id) ==
    IF spec_id = NoId
    THEN Cardinality({ r[2] : r \in coverage })
    ELSE Cardinality({ r[2] : r \in
            { c \in coverage : \E i \in DOMAIN endpoints :
                  endpoints[i].id = c[2] /\ endpoints[i].spec_id = spec_id } })

\* round(n / d, 0) for n >= 0, d > 0, ties to the even neighbour
round_half_even(n, d) ==
    LET q == n \div d
        r == n % d
    IN  IF 2 * r < d THEN q
        ELSE IF 2 * r > d THEN q + 1
        ELSE IF q % 2 = 0 THEN q ELSE q + 1

\* coverage_percentage, in hundredths of a percent
coverage_percentage(covered, total) ==
    IF total > 0 THEN round_half_even(covered * 10000, total) ELSE 0

get_coverage_summary(spec_id) ==
    [total_endpoints |-> total_endpoints(spec_id),
     covered_endpoints |-> covered_count(spec_id),
     uncovered_endpoints |-> total_endpoints(spec_id) - covered_count(spec_id),
     coverage_percentage |->
         coverage_percentage(covered_count(spec_id), total_endpoints(spec_id))]

(***************************************************************************)
(* CoverageService.get_uncovered_endpoints                                 *)
(***************************************************************************)
\* query(TestEndpointCoverage.endpoint_id).distinct()
covered_ids == { r[2] : r \in coverage }

\* a listing that forgets the contract filter (mutant)
get_uncovered_endpoints_unfiltered(spec_id) ==
    { endpoints[i].id : i \in { j \in DOMAIN endpoints :
                                  endpoints[j].id \notin covered_ids } }

\* the ids of the listed endpoints: not among the covered ids, and of the
\* contract when one is given ("if spec_id:")
get_uncovered_endpoints(spec_id) ==
    { endpoints[i].id : i \in { j \in DOMAIN endpoints :
                                  /\ endpoints[j].id \notin covered_ids
                                  /\ spec_id = NoId \/ endpoints[j].spec_id = spec_id } }

(***************************************************************************)
(* CoverageService.get_coverage_by_microservice                            *)
(***************************************************************************)
\* the Microservice table, by id, and OpenAPISpec.microservice_id: one
\* service per contract row, and a service without any contract
Microservices == {1, 2, 3, 4}

microservice_id == <<1, 2, 3>>

\* [spec.id for spec in ms.specs]
spec_ids_of(ms) == { s \in DOMAIN specs : microservice_id[s] = ms }

\* one entry of the breakdown: total and covered over the service's
\* contracts, the percentage in hundredths of a percent
breakdown_entry(ms) ==
    LET mine == { i \in DOMAIN endpoints : endpoints[i].spec_id \in spec_ids_of(ms) }
        total == Cardinality(mine)
        covered == Cardinality({ endpoints[i].id : i \in
                       { j \in mine : \E c \in coverage : c[2] = endpoints[j].id } })
    IN  [microservice_id |-> ms, total_endpoints |-> total,
         covered_endpoints |-> covered,
         coverage_percentage |-> coverage_percentage(covered, total)]

\* the loop over the services in id order: "if not spec_ids: continue"
RECURSIVE breakdown_from(_)
breakdown_from(ms) ==
    IF ms \notin Microservices THEN <<>>
    ELSE (IF spec_ids_of(ms) = {} THEN <<>> ELSE << breakdown_entry(ms) >>)
         \o breakdown_from(ms + 1)

\* the results as the loop leaves them (mutant)
unsorted(results) == results

\* sorted(results, key=coverage_percentage): stable, ascending
RECURSIVE sorted_by_percentage(_)
sorted_by_percentage(results) ==
    IF results = <<>> THEN <<>>
    ELSE LET front == sorted_by_percentage(SubSeq(results, 1, Len(results) - 1))
             x == results[Len(results)]
             k == Cardinality({ i \in DOMAIN front :
                      front[i].coverage_percentage <= x.coverage_percentage })
         IN  SubSeq(front, 1, k) \o <<x>> \o SubSeq(front, k + 1, Len(front))

get_coverage_by_microservice == sorted_by_percentage(breakdown_from(1))

(***************************************************************************)
(* The coverage correlator over the store.                                 *)
(***************************************************************************)
MissingId == 99         \* an id no row has

InitStore ==
    /\ input = <<>>
    /\ output = <<>>
    /\ phase = "store"
    /\ specs = StoredSpecs
    /\ endpoints = <<>>
    /\ tests = <<>>
    /\ coverage = {}
    /\ extracted = {}
    /\ hash_order \in VisitOrders
    /\ temp_dir = NoDir
    /\ dirs = {}
    /\ files = {}
    /\ now = 1
    /\ sweep = [pc |-> "idle"]
    /\ sessions = <<>>
    /\ last = [op |-> "init"]

NextStore ==
    \/ \E s \in SpecIds \cup {MissingId}, ok \in BOOLEAN : ExtractOne(s, ok)
    \/ \E f \in {0} \cup Committing : ExtractAll(f)
    \/ \E t \in DOMAIN tests \cup {MissingId}, ok \in BOOLEAN : AnalyzeOne(t, ok)
    \/ \E failing \in SUBSET DOMAIN tests : AnalyzeAll(failing, NoId)
    \/ \E raising \in DOMAIN tests : AnalyzeAll({}, raising)
    \/ \E batch \in Batches : StoreTests(batch, TRUE)
    \* a failed commit stores nothing, whatever the batch was
    \/ \E batch \in { CHOOSE b \in Batches : TRUE } : StoreTests(batch, FALSE)

SpecStore == InitStore /\ [][NextStore]_vars

\* the coverage rows of one test, as endpoint ids
rows_of_test(test_id) == { r[2] : r \in { c \in coverage : c[1] = test_id } }

\* the endpoints the call sites of a body are matched to, spelled out: for
\* each recognized call site with a path, the first row in table order
\* (within the test's contract, if it has one) that has the method and
\* whose normalized path the call's path equals or parameter-matches
implied_rows(test) ==
    { endpoints[i].id : i \in { j \in DOMAIN endpoints :
        /\ test.spec_id # NoId => endpoints[j].spec_id = test.spec_id
        /\ \E call \in _extract_http_calls(test.code) :
              /\ endpoint_matches(endpoints[j], _normalize_path(call[2]), call[1])
              /\ \A k \in 1..(j - 1) :
                    (test.spec_id # NoId => endpoints[k].spec_id = test.spec_id)
                    => ~endpoint_matches(endpoints[k], _normalize_path(call[2]), call[1]) } }

\* C1: once analyze_test_coverage(test) has committed, the stored coverage
\* rows of the test are exactly the endpoints matched by the call sites of
\* its current body, whatever was analyzed or edited before.
C1_RowsAreThoseOfCurrentBody ==
    (last.op = "analyze" /\ last.committed) =>
        rows_of_test(last.id) = implied_rows(tests[last.id])

\* a re-analysis left rows, while another body of the pool would have
\* left other rows for the same test
C1_Witness ==
    /\ last.op = "analyze" /\ last.committed
    /\ rows_of_test(last.id) # {}
    /\ \E code \in CodePool :
          implied_rows([tests[last.id] EXCEPT !.code = code]) \ rows_of_test(last.id) # {}

\* C2 (key part): no (contract, path, method) key has two rows
no_duplicate_key ==
    \A i, j \in DOMAIN endpoints :
        EndpointKey(endpoints[i]) = EndpointKey(endpoints[j]) => i = j

\* C2: a committed extraction run on a contract that an earlier committed
\* run has processed leaves that contract's rows the same in count and
\* ids, and no key is ever stored twice.
C2_ExtractionIdempotent ==
    /\ [][ \A s \in SpecIds :
             (/\ s \in extracted
              /\ \/ last'.op = "extract" /\ last'.id = s /\ last'.committed
                 \/ last'.op = "extract_all" /\ (last'.id = 0 \/ s < last'.id))
             => ids_of_spec(endpoints', s) = ids_of_spec(endpoints, s) ]_vars
    /\ [] no_duplicate_key

\* a second committed run on a contract with rows
C2_Witness ==
    /\ last.op = "extract" /\ last.committed
    /\ last.id \in extracted
    /\ Cardinality(ids_of_spec(endpoints, last.id)) = 2
    /\ Len(endpoints) = 4

\* C11: in analyze_all_tests a failure while analyzing one test (a failed
\* commit, or an error raised while deleting, extracting or matching) does
\* not abort the batch: every other test leaves the batch with the rows of
\* its current body, a report is returned, and the report records the
\* failure, i.e. it is not the report of the same batch without the failure.
C11_FailureDoesNotAbortBatch ==
    last.op = "analyze_all" =>
        LET failed == last.failing \cup ({last.id} \cap DOMAIN tests)
        IN  /\ \A t \in DOMAIN tests \ failed :
                  rows_of_test(t) = implied_rows(tests[t])
            /\ failed # {} =>
                  /\ last.report.returned
                  /\ \A t \in failed :
                        last.report # analyze_all_report(failed \ {t}, NoId)

\* every operation of the contract's document has its row
all_stored(spec_id) ==
    \A op \in specs[spec_id].ops :
        lookup_endpoint(endpoints, spec_id, op.path, op.method) # {}

\* C12: in extract_all_endpoints a persistence failure while storing one
\* contract's endpoints rolls back only that contract: the contracts that
\* come after it in the batch are still processed and their endpoints are
\* stored when the batch ends.
C12_LaterContractsStillStored ==
    (last.op = "extract_all" /\ last.id # 0) =>
        \A s \in Committing : s > last.id => all_stored(s)

\* C16: extraction for one contract is atomic -- a run whose commit fails
\* leaves the endpoint table as it was before the run -- and the failure
\* reaches the caller as an exception that carries the contract id.
C16_AtomicAndCarriesContractId ==
    [][ (last'.op = "extract" /\ last'.id \in Committing /\ ~last'.committed) =>
            /\ endpoints' = endpoints
            /\ last'.raised.kind = "persistence"
            /\ "spec_id" \in DOMAIN last'.raised
            /\ last'.raised.spec_id = last'.id ]_vars

\* the entries come in ascending order of coverage percentage
ascending(results) ==
    \A i, j \in DOMAIN results :
        i < j => results[i].coverage_percentage <= results[j].coverage_percentage

\* C17 as stated: the breakdown is in ascending order of coverage
\* percentage and no service with zero endpoints is in it.
C17_AscendingWithoutEmptyServices ==
    /\ ascending(get_coverage_by_microservice)
    /\ \A i \in DOMAIN get_coverage_by_microservice :
          get_coverage_by_microservice[i].total_endpoints > 0

\* C17, amended: the breakdown is in ascending order of coverage
\* percentage; it has one entry for every service that has a contract,
\* and none for a service without a contract; a service whose contracts
\* have no endpoint is listed with total 0, covered 0 and percentage 0.
C17_AscendingOverServicesWithContract ==
    LET results == get_coverage_by_microservice
    IN  /\ ascending(results)
        /\ \A ms \in Microservices :
              Cardinality({ i \in DOMAIN results : results[i].microservice_id = ms })
                  = IF spec_ids_of(ms) = {} THEN 0 ELSE 1
        /\ \A i \in DOMAIN results :
              /\ results[i] = breakdown_entry(results[i].microservice_id)
              /\ results[i].total_endpoints = 0 =>
                    /\ results[i].covered_endpoints = 0
                    /\ results[i].coverage_percentage = 0

\* the sort moved the first service behind others: it is covered, a
\* service with endpoints is not, and a service without endpoints is listed
C17_Witness ==
    LET results == get_coverage_by_microservice
    IN  /\ results[1].microservice_id # 1
        /\ results[Len(results)].coverage_percentage > 0
        /\ \E i \in DOMAIN results :
              results[i].total_endpoints > 0 /\ results[i].coverage_percentage = 0
        /\ \E i \in DOMAIN results : results[i].total_endpoints = 0

\* the Endpoint row with this id
endpoint_by_id(eid) == endpoints[CHOOSE i \in DOMAIN endpoints : endpoints[i].id = eid]

Runs == {1, 2}

\* one request's session: where the call stands, the rows its DELETE took,
\* the rows the loop handed to db.add, in order, and the same as a set;
\* overlap says the other request had its transaction open when this one
\* issued its DELETE
Session(test_id, pc, deleted, inserts, overlap) ==
    [test_id |-> test_id, pc |-> pc, deleted |-> deleted, inserts |-> inserts,
     added |-> { inserts[i] : i \in DOMAIN inserts }, overlap |-> overlap]

\* the rows the DELETE of _analyze_single_test removes: those of the
\* committed table that the statement's filter selects
deleted_rows(rows, test_id) == rows \ delete_coverage(rows, test_id)

\* a DELETE that other sessions see at once (mutant)
after_delete_autocommit(rows, deleted) == rows \ deleted

\* the committed table once the DELETE has run: the same rows, the session
\* was made with autocommit=False and commits at the end only
after_delete(rows, deleted) == rows

\* query(TestEndpointCoverage).filter_by(test_id=test.id).delete()
TxnDelete(r) ==
    /\ sessions[r].pc = "start"
    /\ LET deleted == deleted_rows(coverage, sessions[r].test_id)
       IN  /\ sessions' = [sessions EXCEPT ![r] =
                  Session(sessions[r].test_id, "deleted", deleted, <<>>,
                          \E o \in Runs \ {r} : sessions[o].pc \in {"deleted", "added"})]
           /\ coverage' = after_delete(coverage, deleted)
    /\ UNCHANGED <<harnessVars, specs, endpoints, tests, extracted, hash_order,
                   engineVars, last>>

\* the list _extract_http_calls returns: the call sites in the order the
\* patterns find them
http_calls(code) == CHOOSE order \in Orderings(_extract_http_calls(code)) : TRUE

\* a membership test that never finds the id (mutant)
never_matched(matched, eid) == FALSE

\* endpoint.id in [e["endpoint_id"] for e in matched_endpoints]
already_matched(matched, eid) == \E i \in DOMAIN matched : matched[i] = eid

\* the loop over http_calls: the endpoint ids handed to db.add, in order
RECURSIVE add_matches(_, _, _)
add_matches(test, calls, matched) ==
    IF calls = <<>> THEN matched
    ELSE LET endpoint == _find_matching_endpoint(Head(calls)[2], Head(calls)[1],
                                                 candidate_endpoints(test))
         IN  add_matches(test, Tail(calls),
                 IF endpoint # NoEndpoint /\ ~already_matched(matched, endpoint.id)
                 THEN Append(matched, endpoint.id)
                 ELSE matched)

\* the candidate query, _extract_http_calls and the loop of db.add
TxnMatch(r) ==
    /\ sessions[r].pc = "deleted"
    /\ LET test_id == sessions[r].test_id
           matched == add_matches(tests[test_id], http_calls(tests[test_id].code), <<>>)
       IN  sessions' = [sessions EXCEPT ![r] =
               Session(test_id, "added", sessions[r].deleted,
                       [i \in DOMAIN matched |-> <<test_id, matched[i]>>],
                       sessions[r].overlap)]
    /\ UNCHANGED <<harnessVars, storeVars, engineVars, last>>

\* the primary key of TestEndpointCoverage, (test_id, endpoint_id): the
\* inserts are refused when two of them, or one of them and a row of the
\* table, have the same pair
primary_key_accepts(rows, inserts) ==
    /\ \A i, j \in DOMAIN inserts : inserts[i] = inserts[j] => i = j
    /\ \A i \in DOMAIN inserts : inserts[i] \notin rows

\* db.commit(): the session's deletes and inserts reach the table, or the
\* commit raises (the store is down, or the key refuses the inserts) and
\* the rollback of the except branch drops them
TxnCommit(r, ok) ==
    /\ sessions[r].pc = "added"
    /\ LET kept == coverage \ sessions[r].deleted
           commits == ok /\ primary_key_accepts(kept, sessions[r].inserts)
       IN  /\ coverage' = IF commits THEN kept \cup sessions[r].added ELSE coverage
           /\ sessions' = [sessions EXCEPT ![r] =
                  [@ EXCEPT !.pc = IF commits THEN "done"
                                   ELSE IF ok THEN "refused" ELSE "failed"]]
    /\ UNCHANGED <<harnessVars, specs, endpoints, tests, extracted, hash_order,
                   engineVars, last>>

\* the two tests under analysis: any bodies, each bound to a contract or not
TxnTests ==
    { << TestRow("test_gateway_users_get", c1, s1, "pending", NoId, 0, NoMessage),
         TestRow("test_gateway_users_me_get", c2, s2, "pending", NoId, 0, NoMessage) >> :
        c1 \in CodePool, c2 \in CodePool, s1 \in TestSpecChoices, s2 \in TestSpecChoices }

\* the store when the two requests arrive: every contract extracted, the
\* two tests stored, and the coverage rows that analyses of earlier bodies
\* of the tests left; input keeps the rows the requests started from
InitTxn ==
    /\ output = <<>>
    /\ phase = "txn"
    /\ specs = StoredSpecs
    /\ hash_order \in VisitOrders
    /\ endpoints = extract_from(<<>>, 1, NoId, hash_order)
    /\ extracted = Committing
    /\ tests \in TxnTests
    /\ \E earlier \in [DOMAIN tests -> CodePool] :
          coverage = UNION { { <<t, eid>> : eid \in
                                 matched_endpoint_ids([tests[t] EXCEPT !.code = earlier[t]]) } :
                             t \in DOMAIN tests }
    /\ input = coverage
    /\ temp_dir = NoDir
    /\ dirs = {}
    /\ files = {}
    /\ now = 1
    /\ sweep = [pc |-> "idle"]
    /\ sessions = [r \in Runs |-> Session(r, "start", {}, <<>>, FALSE)]
    /\ last = [op |-> "init"]

NextTxn ==
    \/ \E r \in Runs : TxnDelete(r)
    \/ \E r \in Runs : TxnMatch(r)
    \/ \E r \in Runs, ok \in BOOLEAN : TxnCommit(r, ok)

SpecTxn == InitTxn /\ [][NextTxn]_vars

\* C13: for two distinct tests, every interleaving of their
\* analyze_test_coverage runs, each in its own transaction, ends in the
\* coverage rows that running the two analyses one after the other gives,
\* and the commit of a run leaves the rows of the other test as they were.
C13_InterleavingsEqualSequential ==
    /\ [] ((\A r \in Runs : sessions[r].pc = "done") =>
              /\ coverage = _analyze_single_test(_analyze_single_test(input, 1), 2)
              /\ coverage = _analyze_single_test(_analyze_single_test(input, 2), 1))
    /\ [][ \A r \in Runs :
             (sessions[r].pc = "added" /\ sessions'[r].pc = "done") =>
                 \A t \in DOMAIN tests \ {sessions[r].test_id} :
                     { c \in coverage' : c[1] = t } = { c \in coverage : c[1] = t } ]_vars

\* both runs are over, one deleted while the other's transaction was open,
\* and each replaced rows of its test by other rows
C13_Witness ==
    /\ \A r \in Runs : /\ sessions[r].pc = "done"
                        /\ sessions[r].deleted # {}
                        /\ sessions[r].added # {}
                        /\ sessions[r].added # sessions[r].deleted
    /\ \E r \in Runs : sessions[r].overlap

\* C21: there is at most one coverage row per (test, endpoint) pair: when
\* several call sites of a test match the same endpoint the analysis hands
\* one row for it to the store, so the key never refuses its inserts, and
\* once it has committed the test has exactly these rows, one per matched
\* endpoint.
C21_OneRowPerPair ==
    \A r \in Runs :
        LET ses == sessions[r]
            test == tests[ses.test_id]
        IN  /\ ses.pc \in {"added", "done", "failed", "refused"} =>
                  /\ \A i, j \in DOMAIN ses.inserts :
                        ses.inserts[i] = ses.inserts[j] => i = j
                  /\ ses.added = { <<ses.test_id, eid>> :
                                     eid \in matched_endpoint_ids(test) }
            /\ ses.pc # "refused"
            /\ ses.pc = "done" =>
                  /\ { c \in coverage : c[1] = ses.test_id } = ses.added
                  /\ Cardinality({ c \in coverage : c[1] = ses.test_id })
                        = Len(ses.inserts)

\* a committed analysis of a body with two call sites that the matcher
\* maps to the same endpoint
C21_Witness ==
    \E r \in Runs :
        LET test == tests[sessions[r].test_id]
        IN  /\ sessions[r].pc = "done"
            /\ \E c1, c2 \in _extract_http_calls(test.code) :
                  /\ c1 # c2
                  /\ _find_matching_endpoint(c1[2], c1[1], candidate_endpoints(test))
                        # NoEndpoint
                  /\ _find_matching_endpoint(c1[2], c1[1], candidate_endpoints(test))
                        = _find_matching_endpoint(c2[2], c2[1], candidate_endpoints(test))

\* C27: a reader in another transaction never sees a test's coverage half
\* replaced.  Until the analysis commits -- after its DELETE, after its
\* inserts, and after a commit that failed and was rolled back -- the
\* committed rows of the test are the old rows; once it has committed they
\* are the new rows, all of them.
C27_ReplaceNotSeenHalfDone ==
    \A r \in Runs :
        LET test_id == sessions[r].test_id
            visible == { c \in coverage : c[1] = test_id }
        IN  IF sessions[r].pc = "done"
            THEN visible = { <<test_id, eid>> :
                               eid \in matched_endpoint_ids(tests[test_id]) }
            ELSE visible = { c \in input : c[1] = test_id }

\* one analysis stands between its DELETE of old rows and its commit, one
\* that had deleted old rows and added others failed to commit
C27_Witness ==
    \E r, o \in Runs :
        /\ sessions[r].pc = "deleted" /\ sessions[r].deleted # {}
        /\ sessions[o].pc = "failed" /\ sessions[o].deleted # {}
        /\ sessions[o].added # sessions[o].deleted

(***************************************************************************)
(* TestService._parse_pytest_output and _extract_pytest_execution_time.    *)
(* A captured stream is the sequence of its lines.                         *)
(***************************************************************************)
MaxLines == 2           \* lines in a captured stream

StdoutLines ==
    { "t.py::test_a PASSED",
      "t.py::test_a FAILED",
      "FAILED t.py::test_a - assert 500 == 200",
      "ERROR t.py - boom",
      "E   ModuleNotFoundError: No module named 'jwt'",
      "ImportError while importing test module 't.py'",
      "E   SyntaxError: invalid syntax",
      "t.py::test_ImportError_is_reported PASSED",
      "1 passed in 0.12s" }

StderrLines ==
    { "ERROR: file or directory not found: t.py",
      "Traceback (most recent call last):" }

\* "marker in line", case-sensitive
line_contains(line, marker) ==
    CASE marker = "PASSED" ->
            line \in {"t.py::test_a PASSED", "t.py::test_ImportError_is_reported PASSED"}
      [] marker = "FAILED" ->
            line \in {"t.py::test_a FAILED", "FAILED t.py::test_a - assert 500 == 200"}
      [] marker = "ERROR" ->
            line \in {"ERROR t.py - boom", "ERROR: file or directory not found: t.py"}
      [] marker = "ImportError" ->
            line \in {"ImportError while importing test module 't.py'",
                      "t.py::test_ImportError_is_reported PASSED"}
      [] marker = "SyntaxError" -> line = "E   SyntaxError: invalid syntax"
      [] marker = "ModuleNotFoundError" ->
            line = "E   ModuleNotFoundError: No module named 'jwt'"
      [] OTHER -> FALSE

\* "marker in text"
contains(lines, marker) == \E i \in DOMAIN lines : line_contains(lines[i], marker)

\* re.search(marker + r'.*?(?=\n|$)', text).group(0): from the first
\* occurrence of the marker to the end of its line
from_marker(line, marker) ==
    CASE line = "t.py::test_a FAILED" /\ marker = "FAILED" -> "FAILED"
      [] OTHER -> line

first_marked(lines, marker) ==
    LET i == CHOOSE j \in DOMAIN lines :
                 /\ line_contains(lines[j], marker)
                 /\ \A k \in 1..(j - 1) : ~line_contains(lines[k], marker)
    IN  <<from_marker(lines[i], marker)>>

\* the seconds of the runner's summary line, in hundredths; 0 without one
_extract_pytest_execution_time(stdout) ==
    IF \E i \in DOMAIN stdout : stdout[i] = "1 passed in 0.12s" THEN 12 ELSE 0

last_lines(lines, n) ==
    IF Len(lines) <= n THEN lines ELSE SubSeq(lines, Len(lines) - n + 1, Len(lines))

ParseResult(status, error_message, execution_time) ==
    [status |-> status, error_message |-> error_message,
     execution_time |-> execution_time]

\* "check return code first"
status_by_return_code(return_code) ==
    IF return_code = 0 THEN ParseResult("passed", NoMessage, 0)
    ELSE IF return_code = 1 THEN ParseResult("failed", <<"Unknown error">>, 0)
    ELSE ParseResult("error", <<"Unknown error">>, 0)

\* "parse output for more detailed information"
status_by_markers(r, stdout, stderr, return_code) ==
    LET combined_output == stdout \o stderr
    IN  IF contains(stdout, "PASSED") /\ return_code = 0
        THEN [r EXCEPT !.status = "passed", !.error_message = NoMessage]
        ELSE IF contains(stdout, "FAILED")
        THEN [r EXCEPT !.status = "failed",
                       !.error_message = first_marked(combined_output, "FAILED")]
        ELSE IF contains(combined_output, "ERROR") \/ return_code > 1
        THEN IF stderr # <<>>
             THEN [r EXCEPT !.status = "error", !.error_message = stderr]
             ELSE IF contains(stdout, "ERROR")
             THEN [r EXCEPT !.status = "error",
                            !.error_message = first_marked(stdout, "ERROR")]
             ELSE [r EXCEPT !.status = "error"]
        ELSE r

\* the targeted diagnoses
status_by_diagnosis(r, combined_output) ==
    IF contains(combined_output, "ImportError")
    THEN [r EXCEPT !.status = "error",
            !.error_message = <<"Import error - missing dependencies or incorrect imports">>]
    ELSE IF contains(combined_output, "SyntaxError")
    THEN [r EXCEPT !.status = "error", !.error_message = <<"Syntax error in test code">>]
    ELSE IF contains(combined_output, "ModuleNotFoundError")
    THEN [r EXCEPT !.status = "error",
            !.error_message = <<"Module not found - missing dependencies">>]
    ELSE r

\* the last lines of the output when no message was derived
message_fallback(r, combined_output) ==
    IF r.error_message = NoMessage /\ r.status # "passed" /\ combined_output # <<>>
    THEN [r EXCEPT !.error_message = last_lines(combined_output, 3)]
    ELSE r

_parse_pytest_output(stdout, stderr, return_code) ==
    LET r0 == [status_by_return_code(return_code) EXCEPT
                  !.execution_time = _extract_pytest_execution_time(stdout)]
        r1 == status_by_markers(r0, stdout, stderr, return_code)
        r2 == status_by_diagnosis(r1, stdout \o stderr)
    IN  message_fallback(r2, stdout \o stderr)

Streams(pool) == UNION { [1..n -> pool] : n \in 0..MaxLines }

ReturnCodes == {0, 1, 2}

InitParse ==
    /\ input \in [stdout : Streams(StdoutLines), stderr : Streams(StderrLines),
                   return_code : ReturnCodes]
    /\ output = ParseResult("none", NoMessage, 0)
    /\ phase = "ready"
    /\ StoreIdle

Parse ==
    /\ phase = "ready"
    /\ output' = _parse_pytest_output(input.stdout, input.stderr, input.return_code)
    /\ phase' = "done"
    /\ UNCHANGED <<input, storeVars, engineVars, sessions, last>>

NextParse == Parse

SpecParse == InitParse /\ [][NextParse]_vars

\* C9: exit code 0 is classified as passed, whatever the captured text.
C9_ExitZeroIsPassed ==
    (phase = "done" /\ input.return_code = 0) => output.status = "passed"

(***************************************************************************)
(* TestService: the workspace.  A world is what one call reads and writes: *)
(* the Test table, the instance's _temp_dir, the directories and files.    *)
(***************************************************************************)
preferred_locations == <<"/tmp", "/app/cache", "/var/run">>

World(t, td, ds, fs) == [tests |-> t, temp_dir |-> td, dirs |-> ds, files |-> fs]

\* f"system_tests_{int(time.time())}_{os.getpid()}_temp" under base_dir: one
\* process, so the second names it
workspace_path(base_dir, at) == <<base_dir, at>>

\* tempfile.mkdtemp: a name no directory has
mkdtemp_path(ds) ==
    <<"tempfile", CHOOSE k \in 1..(Cardinality(ds) + 1) :
                      /\ <<"tempfile", k>> \notin ds
                      /\ \A j \in 1..(k - 1) : <<"tempfile", j>> \in ds>>

\* the fallback after the loop; acq.mkdtemp is what the file system does
mkdtemp_fallback(w, acq) ==
    IF acq.mkdtemp = "ok"
    THEN [world |-> [w EXCEPT !.temp_dir = mkdtemp_path(w.dirs),
                              !.dirs = @ \cup {mkdtemp_path(w.dirs)}],
          raised |-> FALSE]
    ELSE IF acq.mkdtemp = "chmod_fails"
    THEN [world |-> [w EXCEPT !.temp_dir = mkdtemp_path(w.dirs),
                              !.dirs = @ \cup {mkdtemp_path(w.dirs)}],
          raised |-> TRUE]
    ELSE [world |-> w, raised |-> TRUE]

\* a makedirs that takes a directory that is there already (mutant)
makedirs_exist_ok(ds, temp_dir_path) == FALSE

\* os.makedirs(temp_dir_path, mode=0o755, exist_ok=False) raises
\* FileExistsError when the directory is there
makedirs_refuses(ds, temp_dir_path) == temp_dir_path \in ds

\* the loop over preferred_locations from the i-th on; acq.loc[i] is what
\* the file system does there: "ok", "unusable" (missing, not writable, or
\* makedirs fails) or "probe_fails" (made, but the probe file fails)
RECURSIVE try_locations(_, _, _, _)
try_locations(i, w, acq, at) ==
    IF i > Len(preferred_locations) THEN mkdtemp_fallback(w, acq)
    ELSE LET temp_dir_path == workspace_path(preferred_locations[i], at)
         IN  IF acq.loc[i] = "unusable" \/ makedirs_refuses(w.dirs, temp_dir_path)
             THEN try_locations(i + 1, w, acq, at)
             ELSE IF acq.loc[i] = "probe_fails"
             THEN try_locations(i + 1, [w EXCEPT !.dirs = @ \cup {temp_dir_path}], acq, at)
             ELSE [world |-> [w EXCEPT !.temp_dir = temp_dir_path,
                                       !.dirs = @ \cup {temp_dir_path}],
                   raised |-> FALSE]

_ensure_temp_directory(w, acq, at) ==
    IF w.temp_dir # NoDir /\ w.temp_dir \in w.dirs
    THEN [world |-> w, raised |-> FALSE]
    ELSE try_locations(1, w, acq, at)

\* rm_ok: whether shutil.rmtree gets the directory removed
_cleanup_temp_directory(w, rm_ok) ==
    IF w.temp_dir = NoDir THEN w
    ELSE IF w.temp_dir \notin w.dirs THEN [w EXCEPT !.temp_dir = NoDir]
    ELSE IF rm_ok
    THEN [w EXCEPT !.dirs = @ \ {w.temp_dir},
                   !.files = { f \in @ : f[1] # w.temp_dir },
                   !.temp_dir = NoDir]
    ELSE w

(***************************************************************************)
(* TestService: one test                                                   *)
(***************************************************************************)
ErrorResult(message) == ParseResult("error", message, 0)

MsgNoWorkspace ==
    <<"Failed to execute test: Unable to create temporary directory. Kubernetes tmpfs volumes may not be properly mounted.">>
MsgNoUnitFile ==
    <<"Failed to execute test: Unable to create temporary test file: [Errno 28] No space left on device">>
MsgTimeout == <<"Test execution timed out after 5 minutes">>
MsgSpawn == <<"Failed to execute test: [Errno 12] Cannot allocate memory">>
MsgCombine == <<"Failed to combine template and test code">>
MsgCommit == <<"(psycopg2.OperationalError) server closed the connection unexpectedly">>
MsgNotFound == <<"Test not found">>

\* a timeout reported as a failed test (mutant)
runner_results_timeout_failed(runner) ==
    IF runner.kind = "timeout" THEN ParseResult("failed", MsgTimeout, 0)
    ELSE IF runner.kind = "spawn_error" THEN ErrorResult(MsgSpawn)
    ELSE _parse_pytest_output(runner.stdout, runner.stderr, runner.return_code)

\* what subprocess.run does
runner_results(runner) ==
    IF runner.kind = "timeout" THEN ErrorResult(MsgTimeout)
    ELSE IF runner.kind = "spawn_error" THEN ErrorResult(MsgSpawn)
    ELSE _parse_pytest_output(runner.stdout, runner.stderr, runner.return_code)

\* e.write: "ok", "open_fails", or "write_fails" (the file is there, the
\* write raised); e.unlink_ok: whether os.unlink removes the file; invoked
\* tells whether subprocess.run was reached
_execute_pytest_on_code(w, test_name, e, at) ==
    LET ens == _ensure_temp_directory(w, e.acquire, at)
        temp_file_path == <<ens.world.temp_dir, test_name>>
    IN  IF ens.raised
        THEN [world |-> ens.world, results |-> ErrorResult(MsgNoWorkspace),
              invoked |-> FALSE]
        ELSE IF e.write = "open_fails"
        THEN [world |-> ens.world, results |-> ErrorResult(MsgNoUnitFile),
              invoked |-> FALSE]
        ELSE IF e.write = "write_fails"
        THEN [world |-> [ens.world EXCEPT !.files = @ \cup {temp_file_path}],
              results |-> ErrorResult(MsgNoUnitFile), invoked |-> FALSE]
        ELSE [world |-> [ens.world EXCEPT !.files =
                            IF e.unlink_ok THEN @ \ {temp_file_path}
                            ELSE @ \cup {temp_file_path}],
              results |-> runner_results(e.runner), invoked |-> TRUE]

\* an update that stores an error as if the test had not run (mutant)
updated_row_error_as_pending(row, results, at) ==
    [row EXCEPT !.status = IF results.status = "error" THEN "pending" ELSE results.status,
                !.last_execution = at,
                !.execution_time = results.execution_time,
                !.error_message = results.error_message]

\* an update that stores the status and leaves the timestamp (mutant)
updated_row_keeps_timestamp(row, results, at) ==
    [row EXCEPT !.status = results.status,
                !.execution_time = results.execution_time,
                !.error_message = results.error_message]

\* the row after test.status = ..., test.last_execution = utcnow(), ...
updated_row(row, results, at) ==
    [row EXCEPT !.status = results.status,
                !.last_execution = at,
                !.execution_time = results.execution_time,
                !.error_message = results.error_message]

\* a committed _update_test_results
_update_test_results(w, test_id, results, at) ==
    [w EXCEPT !.tests[test_id] = updated_row(@, results, at)]

Result(status, message, found) ==
    [status |-> status, message |-> message, found |-> found]

\* a handler that lets the exception of its own update out (mutant)
except_reraise(update_raises) == update_raises

\* "except: pass" around the handler's update: whether execute_single_test
\* raises when that update raises
except_pass(update_raises) == FALSE

\* the end of execute_single_test: the results are stored and returned, or
\* the commit raises (e.db = "first_commit_fails" or "down") and the
\* handler stores an error instead, if that commit goes through
store_and_return(w, test_id, results, e, at) ==
    IF e.db = "ok"
    THEN [world |-> _update_test_results(w, test_id, results, at),
          result |-> Result(results.status, results.error_message, TRUE),
          raised |-> FALSE]
    ELSE [world |-> IF e.db = "first_commit_fails"
                    THEN _update_test_results(w, test_id, ErrorResult(MsgCommit), at)
                    ELSE w,
          result |-> Result("error", MsgCommit, TRUE),
          raised |-> except_pass(e.db = "down")]

\* a lookup that falls back on the first row (mutant)
test_by_id_or_first(rows, test_id) ==
    IF test_id \in DOMAIN rows THEN {test_id} ELSE { i \in DOMAIN rows : i = 1 }

\* query(Test).filter_by(id=test_id).first()
test_by_id(rows, test_id) == { i \in DOMAIN rows : i = test_id }

\* an execution that stores a running status when it starts (mutant)
mark_started_running(rows, id) == [rows EXCEPT ![id].status = "running"]

\* what the start of an execution stores about the test: nothing, the row
\* is only read until _update_test_results
mark_started(rows, id) == rows

execute_single_test(w0, test_id, e, at) ==
    IF test_by_id(w0.tests, test_id) = {}
    THEN [world |-> w0, result |-> Result("error", MsgNotFound, FALSE),
          raised |-> FALSE, invoked |-> FALSE]
    ELSE LET id == CHOOSE i \in test_by_id(w0.tests, test_id) : TRUE
             w == [w0 EXCEPT !.tests = mark_started(w0.tests, id)]
         IN  IF ~e.combine_ok
             THEN store_and_return(w, id, ErrorResult(MsgCombine), e, at)
                      @@ [invoked |-> FALSE]
             ELSE LET run == _execute_pytest_on_code(w, w.tests[id].name, e, at)
                  IN  store_and_return(run.world, id, run.results, e, at)
                          @@ [invoked |-> run.invoked]

(***************************************************************************)
(* main.py: POST /api/execute-test/{test_id}                               *)
(***************************************************************************)
\* the lines that hold "not found" once lowered
NotFoundLines ==
    { "Test not found",
      "Module not found - missing dependencies",
      "ERROR: file or directory not found: t.py" }

\* result["status"] == "error" and "not found" in message.lower()
classified_not_found(result) ==
    /\ result.status = "error"
    /\ \E i \in DOMAIN result.message : result.message[i] \in NotFoundLines

(***************************************************************************)
(* What the environment can do to one execution                            *)
(***************************************************************************)
Acquire(l1, l2, l3, mk) == [loc |-> <<l1, l2, l3>>, mkdtemp |-> mk]

AcquireOk == Acquire("ok", "ok", "ok", "ok")

AcquirePool ==
    { AcquireOk,
      Acquire("probe_fails", "ok", "ok", "ok"),
      Acquire("unusable", "unusable", "unusable", "ok"),
      Acquire("unusable", "unusable", "unusable", "chmod_fails"),
      Acquire("unusable", "unusable", "unusable", "fails") }

\* a finished runner process; what says which kind of run the text is of
Completed(stdout, stderr, return_code, what) ==
    [kind |-> "completed", stdout |-> stdout, stderr |-> stderr,
     return_code |-> return_code, what |-> what]

Unfinished(kind) ==
    [kind |-> kind, stdout |-> <<>>, stderr |-> <<>>, return_code |-> 0, what |-> kind]

RunnerPool ==
    { Unfinished("timeout"),
      Unfinished("spawn_error"),
      Completed(<<"t.py::test_a PASSED", "1 passed in 0.12s">>, <<>>, 0, "passes"),
      Completed(<<"t.py::test_a FAILED", "FAILED t.py::test_a - assert 500 == 200">>,
                <<>>, 1, "fails"),
      Completed(<<"ERROR t.py - boom", "ImportError while importing test module 't.py'">>,
                <<>>, 2, "import_error"),
      Completed(<<"ERROR t.py - boom", "E   SyntaxError: invalid syntax">>,
                <<>>, 2, "syntax_error"),
      Completed(<<"t.py::test_a FAILED", "E   ModuleNotFoundError: No module named 'jwt'">>,
                <<>>, 1, "module_not_found") }

Env(acquire, combine_ok, write, runner, unlink_ok, db, rm_ok) ==
    [acquire |-> acquire, combine_ok |-> combine_ok, write |-> write,
     runner |-> runner, unlink_ok |-> unlink_ok, db |-> db, rm_ok |-> rm_ok]

EnvOk == Env(AcquireOk, TRUE, "ok", Unfinished("timeout"), TRUE, "ok", TRUE)

\* the things that go wrong around the runner in one execution
faults(e) ==
    (IF e.acquire = AcquireOk THEN {} ELSE {"acquire"})
    \cup (IF e.combine_ok THEN {} ELSE {"combine"})
    \cup (IF e.write = "ok" THEN {} ELSE {"write"})
    \cup (IF e.unlink_ok THEN {} ELSE {"unlink"})
    \cup (IF e.db = "ok" THEN {} ELSE {"db"})
    \cup (IF e.rm_ok THEN {} ELSE {"rm"})

\* whether the environment lets the execution get as far as the runner
reaches_runner(e) ==
    e.combine_ok /\ e.write = "ok" /\ e.acquire.mkdtemp \notin {"chmod_fails", "fails"}

\* one thing goes wrong at a time.  Every run of the runner when nothing
\* else goes wrong; around a fault, a run that ends in an error and one
\* that passes
Envs ==
    { e \in [acquire : AcquirePool, combine_ok : BOOLEAN,
             write : {"ok", "open_fails", "write_fails"}, runner : RunnerPool,
             unlink_ok : BOOLEAN, db : {"ok", "first_commit_fails", "down"},
             rm_ok : BOOLEAN] :
        /\ \A f, g \in faults(e) : f = g
        /\ faults(e) # {} => e.runner.what \in {"timeout", "passes"}
        /\ ~reaches_runner(e) => e.runner.what = "timeout" }

\* inside a batch the workspace is there already and is removed at the end
BatchEnvs == { e \in Envs : e.acquire = AcquireOk /\ e.rm_ok }

\* which kind of run it was, when the runner was reached
fault_of(e, invoked) == IF invoked THEN e.runner.what ELSE "none"

Outcome(op, test_id, r, e) ==
    [op |-> op, id |-> test_id, found |-> r.result.found,
     status |-> r.result.status, message |-> r.result.message,
     fault |-> fault_of(e, r.invoked), stored |-> r.result.found /\ e.db # "down"]

\* executions start while at most this many directories are around
MaxDirs == 1

(***************************************************************************)
(* The execution operations as steps                                       *)
(***************************************************************************)
Sweep(pc, status, total, next, passed, failed, errors, created, rm_failed) ==
    [pc |-> pc, status |-> status, total |-> total, next |-> next,
     passed |-> passed, failed |-> failed, errors |-> errors,
     created |-> created, rm_failed |-> rm_failed]

SweepIdle == Sweep("idle", "none", 0, 1, 0, 0, 0, {}, FALSE)

\* POST /api/execute-test/{test_id}: an engine of its own, one test, and
\* the engine's __del__ when the handler is left
ExecuteSingle(test_id, e) ==
    /\ Cardinality(dirs) <= MaxDirs
    /\ LET r == execute_single_test(World(tests, NoDir, dirs, files), test_id, e, now)
           w == _cleanup_temp_directory(r.world, e.rm_ok)
       IN  /\ tests' = w.tests
           /\ dirs' = w.dirs
           /\ files' = w.files
           /\ last' = Outcome("execute_single", test_id, r, e)
    /\ UNCHANGED <<harnessVars, sessions, specs, endpoints, coverage, extracted, hash_order,
                   temp_dir, now, sweep>>

\* where the process can die during execute_single_test: after the lookup
\* and the combination, while the runner runs, and after the runner, before
\* _update_test_results
CrashPoints == {"started", "running", "finished"}

\* an execution whose process dies at that point: nothing is committed, no
\* finally clause and no __del__ runs, what is on disk stays
ExecuteCrash(test_id, point) ==
    /\ Cardinality(dirs) <= MaxDirs
    /\ test_by_id(tests, test_id) # {}
    /\ LET id == CHOOSE i \in test_by_id(tests, test_id) : TRUE
           w == World(mark_started(tests, id), NoDir, dirs, files)
           ens == _ensure_temp_directory(w, AcquireOk, now)
       IN  /\ tests' = w.tests
           /\ dirs' = IF point = "started" THEN dirs ELSE ens.world.dirs
           /\ files' = IF point = "running"
                       THEN files \cup {<<ens.world.temp_dir, tests[id].name>>}
                       ELSE files
           /\ last' = [op |-> "crash", id |-> id, point |-> point]
    /\ UNCHANGED <<harnessVars, sessions, specs, endpoints, coverage, extracted, hash_order,
                   temp_dir, now, sweep>>

\* execute_all_tests up to its loop
SweepStart(acquire) ==
    /\ sweep.pc = "idle"
    /\ Cardinality(dirs) <= MaxDirs
    /\ LET ens == _ensure_temp_directory(World(tests, NoDir, dirs, files), acquire, now)
       IN  IF tests = <<>>
           THEN /\ sweep' = [SweepIdle EXCEPT !.pc = "returned", !.status = "warning"]
                /\ UNCHANGED <<temp_dir, dirs>>
           ELSE /\ temp_dir' = ens.world.temp_dir
                /\ dirs' = ens.world.dirs
                /\ sweep' = IF ens.raised
                            THEN [SweepIdle EXCEPT !.pc = "returned", !.status = "error",
                                                   !.created = ens.world.dirs \ dirs]
                            ELSE [SweepIdle EXCEPT !.pc = "running", !.total = Len(tests),
                                                   !.created = ens.world.dirs \ dirs]
    /\ last' = [op |-> "execute_all", id |-> NoId, committed |-> FALSE]
    /\ UNCHANGED <<harnessVars, sessions, storeVars, files, now>>

\* a loop that an error result ends (mutant)
tally_stops_on_error(s, status) ==
    [s EXCEPT !.next = IF status \in {"passed", "failed"} THEN @ + 1 ELSE s.total + 1,
              !.passed = IF status = "passed" THEN @ + 1 ELSE @,
              !.failed = IF status = "failed" THEN @ + 1 ELSE @,
              !.errors = IF status \notin {"passed", "failed"} THEN @ + 1 ELSE @]

\* results.append(result) and the three counters; the loop goes on to the
\* next test whatever the status
tally(s, status) ==
    [s EXCEPT !.next = @ + 1,
              !.passed = IF status = "passed" THEN @ + 1 ELSE @,
              !.failed = IF status = "failed" THEN @ + 1 ELSE @,
              !.errors = IF status \notin {"passed", "failed"} THEN @ + 1 ELSE @]

\* one turn of the loop
SweepTest(e) ==
    /\ sweep.pc = "running"
    /\ sweep.next <= sweep.total
    /\ LET r == execute_single_test(World(tests, temp_dir, dirs, files), sweep.next, e, now)
       IN  /\ tests' = r.world.tests
           /\ temp_dir' = r.world.temp_dir
           /\ dirs' = r.world.dirs
           /\ files' = r.world.files
           /\ last' = Outcome("execute_all", sweep.next, r, e)
           /\ sweep' = [tally(sweep, r.result.status) EXCEPT
                 !.created = @ \cup (r.world.dirs \ dirs)]
    /\ UNCHANGED <<harnessVars, sessions, specs, endpoints, coverage, extracted, hash_order, now>>

\* the summary and the finally clause
SweepFinish(rm_ok) ==
    /\ sweep.pc = "running"
    /\ sweep.next > sweep.total
    /\ LET w == _cleanup_temp_directory(World(tests, temp_dir, dirs, files), rm_ok)
       IN  /\ temp_dir' = w.temp_dir
           /\ dirs' = w.dirs
           /\ files' = w.files
    /\ sweep' = [sweep EXCEPT !.pc = "returned", !.status = "success",
                              !.rm_failed = ~rm_ok]
    /\ last' = [op |-> "execute_all", id |-> NoId, committed |-> TRUE]
    /\ UNCHANGED <<harnessVars, sessions, storeVars, now>>

\* the engine of the batch goes away: __del__
SweepTeardown(rm_ok) ==
    /\ sweep.pc = "returned"
    /\ LET w == _cleanup_temp_directory(World(tests, temp_dir, dirs, files), rm_ok)
       IN  /\ dirs' = w.dirs
           /\ files' = w.files
    /\ temp_dir' = NoDir
    /\ sweep' = SweepIdle
    /\ last' = [op |-> "teardown", id |-> NoId, committed |-> rm_ok]
    /\ UNCHANGED <<harnessVars, sessions, storeVars, now>>

\* what generation hands over while tests are being executed
ExecBatches ==
    UNION { [names -> [code : {{}}, spec_id : {NoId}]] :
              names \in (SUBSET TestNames) \ {{}} }

InitExec ==
    /\ input = <<>>
    /\ output = <<>>
    /\ phase = "idle"
    /\ specs = <<>>
    /\ endpoints = <<>>
    /\ coverage = {}
    /\ extracted = {}
    /\ hash_order = <<>>
    /\ tests = <<>>
    /\ temp_dir = NoDir
    /\ dirs = {}
    /\ files = {}
    /\ now = 1
    /\ sweep = SweepIdle
    /\ sessions = <<>>
    /\ last = [op |-> "init"]

\* single executions and generation
NextExec ==
    \/ \E test_id \in DOMAIN tests, e \in Envs : ExecuteSingle(test_id, e)
    \/ ExecuteSingle(MissingId, EnvOk)
    \/ \E batch \in ExecBatches : StoreTests(batch, TRUE)

SpecExec == InitExec /\ [][NextExec]_vars

\* executions that run to their end with nothing going wrong around the
\* runner, executions whose process dies, and generation
NextCrash ==
    \/ \E test_id \in DOMAIN tests, e \in { env \in Envs : faults(env) = {} } :
          ExecuteSingle(test_id, e)
    \/ \E test_id \in DOMAIN tests, point \in CrashPoints : ExecuteCrash(test_id, point)
    \/ \E batch \in ExecBatches : StoreTests(batch, TRUE)

SpecCrash == InitExec /\ [][NextCrash]_vars

\* a single execution that passes, next to a batch
EnvPasses ==
    Env(AcquireOk, TRUE, "ok",
        Completed(<<"t.py::test_a PASSED", "1 passed in 0.12s">>, <<>>, 0, "passes"),
        TRUE, "ok", TRUE)

\* batches, generation, and single executions in between
NextSweep ==
    \/ \E acquire \in AcquirePool : SweepStart(acquire)
    \/ \E e \in BatchEnvs : SweepTest(e)
    \/ \E rm_ok \in BOOLEAN : SweepFinish(rm_ok)
    \/ \E rm_ok \in BOOLEAN : SweepTeardown(rm_ok)
    \/ \E batch \in ExecBatches : StoreTests(batch, TRUE)
    \/ \E test_id \in DOMAIN tests : ExecuteSingle(test_id, EnvPasses)

SpecSweep == InitExec /\ [][NextSweep]_vars

(***************************************************************************)
(* Properties of the execution operations                                  *)
(***************************************************************************)
Terminal == {"passed", "failed", "error"}

ExecutionErrors ==
    {"timeout", "spawn_error", "import_error", "module_not_found", "syntax_error"}

\* C5: whenever execute_all_tests has returned, no directory that its engine
\* created during the batch still exists.  Stated for the returns in which
\* no removal was refused by the file system.
C5_WorkspaceGoneAtReturn ==
    (sweep.pc = "returned" /\ ~sweep.rm_failed) => sweep.created \cap dirs = {}

\* C6: execute_single_test with an id that matches no stored test returns
\* the not-found result and leaves every stored row as it was.
C6_MissingIdChangesNothing ==
    [][(last'.op = "execute_single" /\ last'.id \notin DOMAIN tests)
          => /\ tests' = tests
             /\ ~last'.found
             /\ last'.status = "error"
             /\ last'.message = MsgNotFound]_vars

C6_Witness ==
    /\ last.op = "execute_single"
    /\ last.id \notin DOMAIN tests
    /\ ~last.found
    /\ \E i \in DOMAIN tests : tests[i].status \in Terminal

\* C7: no result of execute_single_test for an existing test is classified
\* as not-found by the caller's check.
C7_ExistingNeverNotFound ==
    (last.op = "execute_single" /\ last.found) => ~classified_not_found(last)

\* C8 as stated: a test whose stored status is passed, failed or error has
\* such a status in every later state, whatever is executed or stored.
C8_ExecutedNeverPendingAgain ==
    [][\A i \in DOMAIN tests :
          tests[i].status \in Terminal => tests'[i].status \in Terminal]_vars

\* C8 amended: no execution takes a stored passed, failed or error status
\* away; the one step that does is the storing of generated tests, which
\* resets the test to pending with no last-execution timestamp.
C8_OnlyStoringResets ==
    [][\A i \in DOMAIN tests :
          (tests[i].status \in Terminal /\ tests'[i].status \notin Terminal)
             => /\ last'.op = "store_tests"
                /\ tests'[i].status = "pending"
                /\ tests'[i].last_execution = NoId]_vars

C8_Witness ==
    /\ last.op = "execute_single"
    /\ last.found
    /\ ~last.stored
    /\ tests[last.id].status \in Terminal

\* C10 as stated: every execution error of an existing test ends with the
\* stored status error and a non-empty stored message.
C10_ErrorIsStored ==
    (last.op = "execute_single" /\ last.found /\ last.fault \in ExecutionErrors)
       => /\ tests[last.id].status = "error"
          /\ tests[last.id].error_message # NoMessage

\* C10 amended: every execution error of an existing test is returned with
\* status error and a non-empty message, and is stored so whenever one of
\* the two commits of the outcome goes through.
C10_ErrorIsReturnedAndStoredWhenCommitted ==
    (last.op = "execute_single" /\ last.found /\ last.fault \in ExecutionErrors)
       => /\ last.status = "error"
          /\ last.message # NoMessage
          /\ last.stored => /\ tests[last.id].status = "error"
                            /\ tests[last.id].error_message # NoMessage

C10_Witness ==
    /\ last.op = "execute_single"
    /\ last.found
    /\ last.fault = "module_not_found"
    /\ last.stored
    /\ tests[last.id].status = "error"

\* C14: after every invocation of the runner step, whatever its outcome
\* (pass, fail, error, timeout, or a failure while writing the unit file),
\* the unit file of that invocation is not in the workspace any more.
C14_UnitFileGoneAfterRunnerStep ==
    (/\ last.op = "execute_all" /\ last.id # NoId
     /\ last.found /\ last.message # MsgCombine) =>
        <<temp_dir, tests[last.id].name>> \notin files

\* the operation just returned the acquisition diagnostic: a single
\* execution whose message is the diagnostic, or a batch that ended in
\* status error before its loop
acquisition_failed ==
    \/ last.op = "execute_single" /\ last.found /\ last.message = MsgNoWorkspace
    \/ /\ last.op = "execute_all" /\ last.id = NoId
       /\ sweep.pc = "returned" /\ sweep.status = "error"

\* C15: when workspace acquisition fails, execute_all_tests and
\* execute_single_test fail fast with the acquisition diagnostic and store
\* no per-test outcome: the Test table is what it was before the call.
C15_AcquisitionFailureStoresNothing ==
    [][ acquisition_failed' => tests' = tests ]_vars

\* C22: no running status is ever stored -- every stored status is one of
\* pending, passed, failed, error -- and an execution whose process dies
\* between its start and the storing of its result leaves the Test rows
\* (status, timestamp, duration, message) as they were.
C22_NoRunningStatusStored ==
    /\ [] (\A t \in DOMAIN tests : tests[t].status \in {"pending"} \cup Terminal)
    /\ [][ last'.op = "crash" => tests' = tests ]_vars

\* a test that an earlier execution had left failed, with its timestamp and
\* message, and whose next execution died while the runner ran
C22_Witness ==
    /\ last.op = "crash" /\ last.point = "running"
    /\ tests[last.id].status = "failed"
    /\ tests[last.id].last_execution # NoId
    /\ tests[last.id].error_message # NoMessage
    /\ \E f \in files : f[2] = tests[last.id].name

\* C23: in every stored state a test's status is pending if and only if
\* its last-execution timestamp is unset: an execution stores status and
\* timestamp in one commit, the storing of generated tests resets both.
C23_PendingIffNeverExecuted ==
    \A t \in DOMAIN tests :
        tests[t].status = "pending" <=> tests[t].last_execution = NoId

\* generated tests have just been stored: one test is pending without a
\* timestamp, another keeps the status and timestamp of its execution
C23_Witness ==
    /\ last.op = "store_tests"
    /\ \E t, u \in DOMAIN tests :
          /\ tests[t].status = "pending" /\ tests[t].last_execution = NoId
          /\ tests[u].status \in Terminal /\ tests[u].last_execution # NoId

\* C24: execute_single_test never raises to its caller: whatever goes wrong
\* while the unit file is written, the runner is started, or the result is
\* stored, the call returns a result with status error, and every returned
\* status is one of passed, failed, error.
C24_NeverRaises ==
    \A test_id \in DOMAIN tests, e \in Envs :
        LET r == execute_single_test(World(tests, NoDir, dirs, files), test_id, e, now)
        IN  /\ ~r.raised
            /\ r.result.status \in Terminal
            /\ (\/ e.write # "ok"
                \/ e.db # "ok"
                \/ reaches_runner(e) /\ e.runner.kind = "spawn_error")
                    => r.result.status = "error"

\* an execution whose commit failed and whose handler could not store the
\* error either has returned an error result
C24_Witness ==
    /\ last.op = "execute_single"
    /\ last.found /\ ~last.stored
    /\ last.status = "error" /\ last.message = MsgCommit

\* C25: when the classification ends with a status other than passed and
\* no message was derived from a failure marker, an error marker, stderr
\* or a targeted diagnosis, the error message is the last lines of the
\* combined output.
C25_FallbackIsLastLines ==
    LET combined_output == input.stdout \o input.stderr
    IN  (/\ phase = "done"
         /\ output.status # "passed"
         /\ ~contains(input.stdout, "FAILED")
         /\ ~contains(combined_output, "ERROR")
         /\ input.stderr = <<>>
         /\ \A marker \in {"ImportError", "SyntaxError", "ModuleNotFoundError"} :
                ~contains(combined_output, marker))
            => output.error_message = last_lines(combined_output, 3)

\* C26: a recognized HTTP call whose literal starts with '/' yields the
\* candidate (method, normalized path) in the result of the extractor, the
\* root path '/' included; the call site is never dropped.
C26_SlashLiteralYieldsCandidate ==
    LET site == CallSite("requests", input.method, "path", input.path)
    IN  <<upper(input.method), _normalize_path(input.path)>>
            \in _extract_http_calls({site})

\* C28: two engines alive at the same time, created in the same process
\* within the same second, never hold the same workspace: an engine created
\* while a batch runs acquires a directory other than the batch's, and the
\* workspace of the running batch is never removed by another engine.
C28_WorkspacesNeverShared ==
    sweep.pc = "running" =>
        /\ temp_dir \in dirs
        /\ \A acquire \in AcquirePool :
              LET ens == _ensure_temp_directory(World(tests, NoDir, dirs, files),
                                                acquire, now)
              IN  ~ens.raised => ens.world.temp_dir # temp_dir

\* a single execution with an engine of its own has passed and cleaned up
\* in the second in which the running batch made its workspace
C28_Witness ==
    /\ sweep.pc = "running"
    /\ temp_dir = workspace_path("/tmp", now)
    /\ temp_dir \in dirs
    /\ last.op = "execute_single" /\ last.status = "passed"

\* C29: a non-empty batch that completes has executed every test of its
\* list once, and its tally satisfies passed + failed + errors =
\* total_tests = number of per-test results; while the batch runs the
\* tally counts the results so far, an error stopping nothing.
C29_TallyCountsEveryTest ==
    /\ sweep.pc = "running" =>
          /\ sweep.next <= sweep.total + 1
          /\ sweep.passed + sweep.failed + sweep.errors = sweep.next - 1
    /\ (sweep.pc = "returned" /\ sweep.status = "success") =>
          /\ sweep.total > 0
          /\ sweep.next - 1 = sweep.total
          /\ sweep.passed + sweep.failed + sweep.errors = sweep.total

\* a batch of two tests has completed: the first test ended in an error,
\* the second one was executed after it and passed
C29_Witness ==
    /\ sweep.pc = "returned" /\ sweep.status = "success"
    /\ sweep.total = 2 /\ sweep.errors = 1 /\ sweep.passed = 1
    /\ Len(tests) = 2
    /\ tests[1].status = "error" /\ tests[2].status = "passed"

\* C30: in every store state the read-side views agree: for the same
\* contract scope the number of endpoints that get_uncovered_endpoints
\* lists is uncovered_endpoints of get_coverage_summary, covered plus
\* uncovered is the total, and every endpoint of the scope is either
\* listed as uncovered or has a coverage row, never both.
C30_ReadViewsAgree ==
    \A spec_id \in {NoId} \cup SpecIds :
        LET summary == get_coverage_summary(spec_id)
            listed == get_uncovered_endpoints(spec_id)
            scope == { endpoints[i].id : i \in { j \in DOMAIN endpoints :
                          spec_id = NoId \/ endpoints[j].spec_id = spec_id } }
        IN  /\ Cardinality(listed) = summary.uncovered_endpoints
            /\ summary.covered_endpoints + summary.uncovered_endpoints
                  = summary.total_endpoints
            /\ summary.covered_endpoints = Cardinality(scope \ listed)
            /\ \A id \in scope : id \in listed <=> id \notin covered_ids

\* two contracts have endpoints; in the scope of one, an endpoint is
\* covered and another is listed as uncovered, and the other contract has
\* uncovered endpoints too
C30_Witness ==
    \E s1, s2 \in SpecIds :
        /\ s1 # s2
        /\ get_coverage_summary(s1).covered_endpoints > 0
        /\ get_uncovered_endpoints(s1) # {}
        /\ get_uncovered_endpoints(s2) # {}

====
